---- MODULE Spec2Model ----
(***************************************************************************)
(* QtNodes::BasicGraphicsScene (src/src/BasicGraphicsScene.cpp): the scene *)
(* that mirrors an AbstractGraphModel into node and connection graphics    *)
(* objects, with the draft connection, the per-connection template dialogs *)
(* and the text items placed under annotated connections.                  *)
(*                                                                         *)
(* Object identity.  Every handler records, in order, the graphics objects *)
(* and dialogs it constructs (constructed): an object of a map survives a  *)
(* handler exactly when its key stays in the map and the handler did not   *)
(* construct an object for that key.  Text items are named by naturals; a  *)
(* name held by the scene or by _textItems is never handed out again.      *)
(* A positionChanged lambda lives as long as the connection object it is   *)
(* connected to: a text item records whether the object now in the map     *)
(* under its connection id is the one its lambda is connected to.          *)
(***************************************************************************)
EXTENDS Integers, Sequences, FiniteSets, TLC

\* ------------------------------------------------------------------ bounds
MaxNode == 2
MaxPort == 2
MaxTextItems == 2
MaxRecords == 1

\* ------------------------------------------------------------- identifiers
NodeIds == 1..MaxNode
PortIndexes == 0..(MaxPort - 1)

\* The id carried by the unresolved side of an incomplete connection id.
InvalidNodeId == 0
InvalidPortIndex == MaxPort

ConnId(o, op, i, ip) ==
    [outNodeId |-> o, outPortIndex |-> op, inNodeId |-> i, inPortIndex |-> ip]

\* Connections the graph model may hold: out port p of node 1 into port 0 of
\* node 2.
ConnectionIds == { ConnId(1, p, 2, 0) : p \in PortIndexes }

\* Ids handed to makeDraftConnection: the out side fixed on node 1, the in side
\* unresolved; and, since the parameter is a plain ConnectionId, a complete id.
IncompleteIds == { ConnId(1, p, InvalidNodeId, InvalidPortIndex) : p \in {0} }
FirstConnectionIds == { c \in ConnectionIds : c.outNodeId = 1 /\ c.outPortIndex = 0 }
DraftIds == IncompleteIds \cup FirstConnectionIds
AllConnectionIds == ConnectionIds \cup IncompleteIds

Orientations == {"Horizontal", "Vertical"}

\* Scene positions; ConnectionGraphicsObject::in() yields one of them.
Origin == <<0, 0>>
Points == { Origin, <<100, 20>> }

\* Column headers of the template records handed to getRecordTemplates.
HeaderRecords == { <<"Header1", "Header2">> }

\* ------------------------------------------------------------ map helpers
EmptyMap == [x \in {} |-> 0]
Put(f, k, v) == [x \in (DOMAIN f) \cup {k} |-> IF x = k THEN v ELSE f[x]]
Erase(f, k) == [x \in (DOMAIN f) \ {k} |-> f[x]]
Range(f) == { f[x] : x \in DOMAIN f }
SeqRange(s) == { s[i] : i \in 1..Len(s) }

RECURSIVE SetToSeq(_)
SetToSeq(S) ==
    IF S = {} THEN << >>
    ELSE LET x == CHOOSE y \in S : TRUE IN <<x>> \o SetToSeq(S \ {x})

RECURSIVE Flatten(_)
Flatten(ss) == IF ss = << >> THEN << >> ELSE Head(ss) \o Flatten(Tail(ss))

\* Node-id enumerations without repetition.
NodeSeqs ==
    { s \in UNION { [1..k -> NodeIds] : k \in 0..MaxNode } :
        \A i, j \in 1..Len(s) : i # j => s[i] # s[j] }

\* A graph whose connections join nodes it holds.
Consistent(ns, cs) ==
    \A c \in cs : c.outNodeId \in SeqRange(ns) /\ c.inNodeId \in SeqRange(ns)


\* ------------------------------------------------------------------ state
VARIABLES
    graphNodes,                 \* _graphModel.allNodeIds(), in enumeration order
    graphConnections,           \* the connection ids the graph model holds
    nodeGraphicsObjects,        \* _nodeGraphicsObjects: NodeId -> object
    connectionGraphicsObjects,  \* _connectionGraphicsObjects: ConnectionId -> object
    draftConnection,            \* _draftConnection: {} (null) or {object}
    dialogs,                    \* _dialogs: ConnectionId -> (dialog, template name)
    textItems,                  \* _textItems: ConnectionId -> text item pointer
    sceneItems,                 \* the QGraphicsTextItems the scene holds (alive)
    orientation,                \* _orientation
    m_record,                   \* m_record: the template records received
    nodeDrag,                   \* _nodeDrag
    inPoints,                   \* ConnectionId -> in() of the connection object
    crashed,                    \* the process ended on a freed pointer
    constructed,                \* history: what the last handler constructed, in order
    emitted,                    \* history: the signals the last handler emitted, in order
    movedSinceClick,            \* history: nodes moved by a position update since the last click
    lastOp                      \* history: the handler that ran last

vars ==
    << graphNodes, graphConnections, nodeGraphicsObjects,
       connectionGraphicsObjects, draftConnection, dialogs, textItems,
       sceneItems, orientation, m_record, nodeDrag, inPoints, crashed,
       constructed, emitted, movedSinceClick, lastOp >>

\* The scene's members as one value, so that a handler is a function of it.
Scene ==
    [ nodeGraphicsObjects |-> nodeGraphicsObjects,
      connectionGraphicsObjects |-> connectionGraphicsObjects,
      draftConnection |-> draftConnection,
      dialogs |-> dialogs,
      textItems |-> textItems,
      sceneItems |-> sceneItems,
      orientation |-> orientation,
      m_record |-> m_record,
      nodeDrag |-> nodeDrag,
      inPoints |-> inPoints,
      crashed |-> crashed,
      constructed |-> << >> ]

Install(s) ==
    /\ nodeGraphicsObjects' = s.nodeGraphicsObjects
    /\ connectionGraphicsObjects' = s.connectionGraphicsObjects
    /\ draftConnection' = s.draftConnection
    /\ dialogs' = s.dialogs
    /\ textItems' = s.textItems
    /\ sceneItems' = s.sceneItems
    /\ orientation' = s.orientation
    /\ m_record' = s.m_record
    /\ nodeDrag' = s.nodeDrag
    /\ inPoints' = s.inPoints
    /\ crashed' = s.crashed
    /\ constructed' = s.constructed

\* --------------------------------------------------------------- objects
NormalColor == <<"normal", "">>

\* QColor getColorForHeader(QString): a fixed function of the header name.
getColorForHeader(header) == <<"header", header>>

NodeGraphicsObject(nodeId) == [nodeId |-> nodeId]

\* doubleClicked: whether the openDialog lambda is connected to the object.
ConnectionGraphicsObject(connectionId, wired) ==
    [ connectionId |-> connectionId,
      doubleClicked |-> wired,
      color |-> NormalColor ]

Made(kind, id) == [kind |-> kind, id |-> id]

\* The signals of the scene.
Modified == [signal |-> "modified"]
NodeMoved(nodeId) == [signal |-> "nodeMoved", nodeId |-> nodeId]

\* Where a text item is put for a connection whose in() is inPoint.
TextPosition(inPoint) == <<inPoint[1] - 50, inPoint[2] + 1>>

\* A connection object is destroyed: the positionChanged lambdas connected to
\* it go with it, the text items stay.
DisconnectPositionChanged(s, connectionId) ==
    [s EXCEPT !.sceneItems =
        [t \in DOMAIN @ |->
            IF @[t].connectionId = connectionId
            THEN [@[t] EXCEPT !.follows = FALSE]
            ELSE @[t]]]

\* The smallest text item name neither in the scene nor held by _textItems.
NewTextItem(s) ==
    CHOOSE t \in 0..(Cardinality(DOMAIN s.sceneItems) + Cardinality(DOMAIN s.textItems)) :
        /\ t \notin DOMAIN s.sceneItems
        /\ t \notin Range(s.textItems)
        /\ \A u \in 0..(t - 1) : u \in DOMAIN s.sceneItems \/ u \in Range(s.textItems)


\* ----------------------------------------------------------- graph model
\* _graphModel.nodeData<PortCount>(nodeId, NodeRole::OutPortCount)
nOutPorts(nodeId) == MaxPort

\* _graphModel.connections(nodeId, PortType::Out, index), as enumerated.
connections(cs, nodeId, index) ==
    SetToSeq({ c \in cs : c.outNodeId = nodeId /\ c.outPortIndex = index })

\* ------------------------------------------------------------- traversal
\* First pass of traverseGraphAndPopulateGraphicsObjects: the nodes, as
\* allNodeIds() enumerates them.
NodePass(allNodeIds) ==
    [ i \in 1..Len(allNodeIds) |-> Made("node", allNodeIds[i]) ]

\* Second pass: for each node, in the same order, its out ports by ascending
\* index, and the connections of each port.
ConnectionPass(allNodeIds, cs) ==
    Flatten([ i \in 1..Len(allNodeIds) |->
        Flatten([ p \in 1..nOutPorts(allNodeIds[i]) |->
            LET out == connections(cs, allNodeIds[i], p - 1)
            IN  [ k \in 1..Len(out) |-> Made("connection", out[k]) ] ]) ])

\* Mutant: the connections are created before the nodes.
TraversalOrder_ConnectionsFirst(allNodeIds, cs) ==
    ConnectionPass(allNodeIds, cs) \o NodePass(allNodeIds)

\* The constructions the traversal performs, in order.
TraversalOrder(allNodeIds, cs) ==
    NodePass(allNodeIds) \o ConnectionPass(allNodeIds, cs)

\* One construction of the traversal: operator[] assigns, so a key met twice
\* keeps the later object.  The traversal connects no doubleClicked lambda.
Construct(s, e) ==
    IF e.kind = "node"
    THEN [s EXCEPT !.nodeGraphicsObjects = Put(@, e.id, NodeGraphicsObject(e.id)),
                   !.constructed = Append(@, e)]
    ELSE [DisconnectPositionChanged(s, e.id) EXCEPT
                   !.connectionGraphicsObjects =
                        Put(@, e.id, ConnectionGraphicsObject(e.id, FALSE)),
                   !.constructed = Append(@, e)]

RECURSIVE Populate(_, _)
Populate(s, todo) ==
    IF todo = << >> THEN s ELSE Populate(Construct(s, Head(todo)), Tail(todo))

traverseGraphAndPopulateGraphicsObjects(s, allNodeIds, cs) ==
    Populate(s, TraversalOrder(allNodeIds, cs))

\* ---------------------------------------------------------------- handlers
\* Each handler maps the scene to the scene it leaves.

\* Mutant: an existing draft is kept.
makeDraftConnection_KeepFirst(s, incompleteConnectionId) ==
    IF s.draftConnection # {}
    THEN s
    ELSE [s EXCEPT !.draftConnection = { [connectionId |-> incompleteConnectionId] },
                   !.constructed = Append(@, Made("draft", incompleteConnectionId))]

makeDraftConnection(s, incompleteConnectionId) ==
    [s EXCEPT !.draftConnection = { [connectionId |-> incompleteConnectionId] },
              !.constructed = Append(@, Made("draft", incompleteConnectionId))]

\* Mutant: the draft is kept.
resetDraftConnection_Keep(s) == s

resetDraftConnection(s) == [s EXCEPT !.draftConnection = {}]

getRecordTemplates(s, inputRecordVector) ==
    [s EXCEPT !.m_record = @ \o inputRecordVector]

removeDialog(s, connectionId) ==
    IF connectionId \in DOMAIN s.dialogs
    THEN [s EXCEPT !.dialogs = Erase(@, connectionId)]
    ELSE s

\* clear(): QGraphicsScene::clear() removes and deletes every item of the scene.
clear(s) == [s EXCEPT !.sceneItems = EmptyMap]

\* Mutant: the maps are not cleared before the traversal.
onModelReset_NoClear(s, allNodeIds, cs) ==
    traverseGraphAndPopulateGraphicsObjects(clear(s), allNodeIds, cs)

onModelReset(s, allNodeIds, cs) ==
    traverseGraphAndPopulateGraphicsObjects(
        clear([s EXCEPT !.connectionGraphicsObjects = EmptyMap,
                        !.nodeGraphicsObjects = EmptyMap]),
        allNodeIds, cs)

\* Mutant: the reset runs whatever the orientation was.
setOrientation_AlwaysReset(s, o, allNodeIds, cs) ==
    onModelReset([s EXCEPT !.orientation = o], allNodeIds, cs)

setOrientation(s, o, allNodeIds, cs) ==
    IF s.orientation # o
    THEN onModelReset([s EXCEPT !.orientation = o], allNodeIds, cs)
    ELSE s

\* Mutant: the object is not erased.
onNodeDeleted_NoErase(s, nodeId) == s

onNodeDeleted(s, nodeId) ==
    IF nodeId \in DOMAIN s.nodeGraphicsObjects
    THEN [s EXCEPT !.nodeGraphicsObjects = Erase(@, nodeId)]
    ELSE s

onNodeCreated(s, nodeId) ==
    [s EXCEPT !.nodeGraphicsObjects = Put(@, nodeId, NodeGraphicsObject(nodeId)),
              !.constructed = Append(@, Made("node", nodeId))]

onConnectionCreated(s, connectionId) ==
    [DisconnectPositionChanged(s, connectionId) EXCEPT
              !.connectionGraphicsObjects =
                    Put(@, connectionId, ConnectionGraphicsObject(connectionId, TRUE)),
              !.constructed = Append(@, Made("connection", connectionId))]

\* The text item _textItems holds for the connection was already deleted
\* (by clear()): removeItem and delete then act on a freed pointer.
DeletesFreedTextItem(s, connectionId) ==
    /\ connectionId \in DOMAIN s.textItems
    /\ s.textItems[connectionId] \notin DOMAIN s.sceneItems

\* Mutant: the draft is never reset.
onConnectionDeleted_KeepDraft(s, connectionId) ==
    LET s1 == [DisconnectPositionChanged(s, connectionId) EXCEPT
                    !.connectionGraphicsObjects = Erase(@, connectionId)]
        s2 == IF connectionId \in DOMAIN s1.textItems
              THEN [s1 EXCEPT !.sceneItems = Erase(@, s1.textItems[connectionId]),
                              !.textItems = Erase(@, connectionId)]
              ELSE s1
    IN  removeDialog(s2, connectionId)

\* Mutant: the draft is reset whatever its id.
onConnectionDeleted_AnyDraft(s, connectionId) ==
    LET s1 == [DisconnectPositionChanged(s, connectionId) EXCEPT
                    !.connectionGraphicsObjects = Erase(@, connectionId)]
        s2 == IF connectionId \in DOMAIN s1.textItems
              THEN [s1 EXCEPT !.sceneItems = Erase(@, s1.textItems[connectionId]),
                              !.textItems = Erase(@, connectionId)]
              ELSE s1
    IN  removeDialog([s2 EXCEPT !.draftConnection = {}], connectionId)

onConnectionDeleted(s, connectionId) ==
    LET s1 == [DisconnectPositionChanged(s, connectionId) EXCEPT
                    !.connectionGraphicsObjects = Erase(@, connectionId)]
        s2 == IF connectionId \in DOMAIN s1.textItems
              THEN [s1 EXCEPT !.sceneItems = Erase(@, s1.textItems[connectionId]),
                              !.textItems = Erase(@, connectionId)]
              ELSE s1
        s3 == IF \E d \in s2.draftConnection : d.connectionId = connectionId
              THEN [s2 EXCEPT !.draftConnection = {}]
              ELSE s2
    IN  removeDialog(s3, connectionId)

\* What the handler can leave: the scene above, or, when it deleted a freed
\* text item, also the end of the process.
onConnectionDeletedOutcomes(s, connectionId) ==
    IF DeletesFreedTextItem(s, connectionId)
    THEN { onConnectionDeleted(s, connectionId), [s EXCEPT !.crashed = TRUE] }
    ELSE { onConnectionDeleted(s, connectionId) }

\* The list widget of a new dialog: the column headers of every record.
ListItems(s) == Flatten(s.m_record)

\* Mutant: a dialog is created on every call.
openDialog_AlwaysNew(s, connectionId) ==
    [s EXCEPT !.dialogs =
                Put(@, connectionId,
                    [items |-> ListItems(s), visible |-> TRUE, second |-> ""]),
              !.constructed = Append(@, Made("dialog", connectionId))]

openDialog(s, connectionId) ==
    LET s1 == IF connectionId \notin DOMAIN s.dialogs
              THEN [s EXCEPT !.dialogs =
                        Put(@, connectionId,
                            [items |-> ListItems(s), visible |-> FALSE, second |-> ""]),
                             !.constructed = Append(@, Made("dialog", connectionId))]
              ELSE s
    IN  [s1 EXCEPT !.dialogs[connectionId].visible = TRUE]

addTextUnderConnection(s, connectionId, templateText) ==
    IF connectionId \in DOMAIN s.connectionGraphicsObjects
    THEN LET textItem == NewTextItem(s)
         IN  [s EXCEPT
                !.sceneItems = Put(@, textItem,
                    [ connectionId |-> connectionId,
                      pos |-> TextPosition(s.inPoints[connectionId]),
                      follows |-> TRUE ]),
                !.textItems = Put(@, connectionId, textItem)]
    ELSE s

\* Mutant: only the first selection is stored.
okClicked_KeepFirst(s, connectionId, currentRow) ==
    LET dialog == s.dialogs[connectionId]
        s1 == IF currentRow # 0
              THEN LET selectedTemplate == dialog.items[currentRow]
                       a == IF dialog.second = ""
                            THEN [s EXCEPT !.dialogs[connectionId].second = selectedTemplate]
                            ELSE s
                       b == IF connectionId \in DOMAIN a.connectionGraphicsObjects
                            THEN [a EXCEPT !.connectionGraphicsObjects[connectionId].color =
                                    getColorForHeader(selectedTemplate)]
                            ELSE a
                   IN  addTextUnderConnection(b, connectionId, selectedTemplate)
              ELSE s
    IN  [s1 EXCEPT !.dialogs[connectionId].visible = FALSE]

\* The OK button's lambda; currentRow = 0 stands for no current item.
okClicked(s, connectionId, currentRow) ==
    LET dialog == s.dialogs[connectionId]
        s1 == IF currentRow # 0
              THEN LET selectedTemplate == dialog.items[currentRow]
                       a == [s EXCEPT !.dialogs[connectionId].second = selectedTemplate]
                       b == IF connectionId \in DOMAIN a.connectionGraphicsObjects
                            THEN [a EXCEPT !.connectionGraphicsObjects[connectionId].color =
                                    getColorForHeader(selectedTemplate)]
                            ELSE a
                   IN  addTextUnderConnection(b, connectionId, selectedTemplate)
              ELSE s
    IN  [s1 EXCEPT !.dialogs[connectionId].visible = FALSE]

\* getConnections(): one ConnectionInfo per entry of _dialogs.
getConnections(s) ==
    LET keys == SetToSeq(DOMAIN s.dialogs)
    IN  [ i \in 1..Len(keys) |->
            [ connectionId |-> keys[i],
              nodeIdOut |-> keys[i].outNodeId,
              nodeIdIn |-> keys[i].inNodeId,
              portTypeIn |-> "In",
              portTypeOut |-> "Out",
              templateName |-> s.dialogs[keys[i]].second ] ]

\* onNodePositionUpdated: the object takes the model's position (kept by the
\* graph model and the object, not by the scene) and the drag flag is set;
\* nothing happens for a node with no object.
\* Mutant: the flag is set also when the node has no object.
onNodePositionUpdated_AlwaysArms(s, nodeId) == [s EXCEPT !.nodeDrag = TRUE]

onNodePositionUpdated(s, nodeId) ==
    IF nodeId \in DOMAIN s.nodeGraphicsObjects
    THEN [s EXCEPT !.nodeDrag = TRUE]
    ELSE s

\* Mutant: the flag stays set after a click.
onNodeClicked_StaysArmed(s, nodeId) == s

onNodeClicked(s, nodeId) == [s EXCEPT !.nodeDrag = FALSE]

\* The positionChanged lambda of a text item connected to the object of
\* connectionId: the item is put under the object's in().
positionChanged(s, connectionId) ==
    [s EXCEPT !.sceneItems =
        [t \in DOMAIN @ |->
            IF @[t].connectionId = connectionId /\ @[t].follows
            THEN [@[t] EXCEPT !.pos = TextPosition(s.inPoints[connectionId])]
            ELSE @[t]]]

\* The connection objects NodeGraphicsObject::moveConnections() moves.
AttachedConnections(s, nodeId) ==
    { c \in DOMAIN s.connectionGraphicsObjects :
        c.inNodeId = nodeId \/ c.outNodeId = nodeId }

RECURSIVE MoveEach(_, _)
MoveEach(s, todo) ==
    IF todo = << >> THEN s ELSE MoveEach(positionChanged(s, Head(todo)), Tail(todo))

\* node->moveConnections(): every attached connection object is moved, the
\* in() of the connections into the node becomes newIn, and each moved
\* object emits positionChanged.
moveConnections(s, nodeId, newIn) ==
    LET attached == AttachedConnections(s, nodeId)
        s1 == [s EXCEPT !.inPoints =
                  [c \in DOMAIN @ |->
                      IF c \in attached /\ c.inNodeId = nodeId THEN newIn ELSE @[c]]]
    IN  MoveEach(s1, SetToSeq(attached))

\* onNodeUpdated: the geometry is recomputed and the connections are moved;
\* newIn is the in point the recomputed geometry yields.
onNodeUpdated(s, nodeId, newIn) ==
    IF nodeId \in DOMAIN s.nodeGraphicsObjects
    THEN moveConnections(s, nodeId, newIn)
    ELSE s

\* The signals of the scene a handler emits, in order, run on scene s.
Q_EMIT(handler, s, id) ==
    CASE handler = "onNodeCreated" -> << Modified >>
      [] handler = "onNodeDeleted" ->
            IF id \in DOMAIN s.nodeGraphicsObjects THEN << Modified >> ELSE << >>
      [] handler = "onConnectionDeleted" -> << Modified >>
      [] handler = "openDialog" -> << Modified >>
      [] handler = "onNodeClicked" ->
            IF s.nodeDrag THEN << NodeMoved(id), Modified >> ELSE << >>
      [] OTHER -> << >>

\* ------------------------------------------------------------------ Init
\* The state the constructor leaves: no draft, no dialog, no text item,
\* horizontal orientation, and the proxies of the traversal of the graph
\* model it was given.
Constructed ==
    [ nodeGraphicsObjects |-> EmptyMap,
      connectionGraphicsObjects |-> EmptyMap,
      draftConnection |-> {},
      dialogs |-> EmptyMap,
      textItems |-> EmptyMap,
      sceneItems |-> EmptyMap,
      orientation |-> "Horizontal",
      m_record |-> << >>,
      nodeDrag |-> FALSE,
      inPoints |-> [c \in ConnectionIds |-> Origin],
      crashed |-> FALSE,
      constructed |-> << >> ]

\* lastOp: the handler, its arguments, and whether the handler found what it
\* looks for when it began: the id in its map, a draft, the orientation as
\* asked, a current row.
Op(name, id, hit) == [op |-> name, id |-> id, hit |-> hit]

Init ==
    /\ graphNodes \in NodeSeqs
    /\ graphConnections \in SUBSET ConnectionIds
    /\ Consistent(graphNodes, graphConnections)
    /\ LET s == traverseGraphAndPopulateGraphicsObjects(
                    Constructed, graphNodes, graphConnections)
       IN  /\ nodeGraphicsObjects = s.nodeGraphicsObjects
           /\ connectionGraphicsObjects = s.connectionGraphicsObjects
           /\ draftConnection = s.draftConnection
           /\ dialogs = s.dialogs
           /\ textItems = s.textItems
           /\ sceneItems = s.sceneItems
           /\ orientation = s.orientation
           /\ m_record = s.m_record
           /\ nodeDrag = s.nodeDrag
           /\ inPoints = s.inPoints
           /\ crashed = s.crashed
           /\ constructed = s.constructed
    /\ emitted = << >>
    /\ movedSinceClick = {}
    /\ lastOp = Op("BasicGraphicsScene", << >>, FALSE)

\* --------------------------------------------- graph model changes, notified
\* The graph model changes and emits the signal; the slot runs at once.

RemoveNode(ns, n) == SelectSeq(ns, LAMBDA x : x # n)

NodeCreated(n) ==
    /\ ~crashed
    /\ n \notin SeqRange(graphNodes)
    /\ graphNodes' = Append(graphNodes, n)
    /\ UNCHANGED graphConnections
    /\ Install(onNodeCreated(Scene, n))
    /\ lastOp' = Op("onNodeCreated", <<n>>, n \in DOMAIN nodeGraphicsObjects)
    /\ emitted' = Q_EMIT("onNodeCreated", Scene, n)
    /\ UNCHANGED movedSinceClick

NodeDeleted(n) ==
    /\ ~crashed
    /\ n \in SeqRange(graphNodes)
    /\ \A c \in graphConnections : c.outNodeId # n /\ c.inNodeId # n
    /\ graphNodes' = RemoveNode(graphNodes, n)
    /\ UNCHANGED graphConnections
    /\ Install(onNodeDeleted(Scene, n))
    /\ lastOp' = Op("onNodeDeleted", <<n>>, n \in DOMAIN nodeGraphicsObjects)
    /\ emitted' = Q_EMIT("onNodeDeleted", Scene, n)
    /\ UNCHANGED movedSinceClick

ConnectionCreated(c) ==
    /\ ~crashed
    /\ c \notin graphConnections
    /\ Consistent(graphNodes, {c})
    /\ graphConnections' = graphConnections \cup {c}
    /\ UNCHANGED graphNodes
    /\ Install(onConnectionCreated(Scene, c))
    /\ lastOp' = Op("onConnectionCreated", <<c>>, c \in DOMAIN connectionGraphicsObjects)
    /\ emitted' = Q_EMIT("onConnectionCreated", Scene, c)
    /\ UNCHANGED movedSinceClick

ConnectionDeleted(c) ==
    /\ ~crashed
    /\ c \in graphConnections
    /\ graphConnections' = graphConnections \ {c}
    /\ UNCHANGED graphNodes
    /\ \E s \in onConnectionDeletedOutcomes(Scene, c) :
        /\ Install(s)
        /\ emitted' = IF s.crashed THEN << >> ELSE Q_EMIT("onConnectionDeleted", Scene, c)
    /\ lastOp' = Op("onConnectionDeleted", <<c>>, c \in DOMAIN connectionGraphicsObjects)
    /\ UNCHANGED movedSinceClick

\* The graph model replaces its content (a load) and emits modelReset.
ModelReset ==
    /\ ~crashed
    /\ \E ns \in NodeSeqs, cs \in SUBSET ConnectionIds :
        /\ Consistent(ns, cs)
        /\ graphNodes' = ns
        /\ graphConnections' = cs
        /\ Install(onModelReset(Scene, ns, cs))
    /\ lastOp' = Op("onModelReset", << >>, TRUE)
    /\ emitted' = Q_EMIT("onModelReset", Scene, << >>)
    /\ UNCHANGED movedSinceClick

\* -------------------------------------------------------- the scene's callers
SetOrientation(o) ==
    /\ ~crashed
    /\ Install(setOrientation(Scene, o, graphNodes, graphConnections))
    /\ lastOp' = Op("setOrientation", <<o>>, orientation = o)
    /\ emitted' = Q_EMIT("setOrientation", Scene, o)
    /\ UNCHANGED movedSinceClick
    /\ UNCHANGED <<graphNodes, graphConnections>>

MakeDraftConnection(x) ==
    /\ ~crashed
    /\ Install(makeDraftConnection(Scene, x))
    /\ lastOp' = Op("makeDraftConnection", <<x>>, draftConnection # {})
    /\ emitted' = Q_EMIT("makeDraftConnection", Scene, x)
    /\ UNCHANGED movedSinceClick
    /\ UNCHANGED <<graphNodes, graphConnections>>

ResetDraftConnection ==
    /\ ~crashed
    /\ Install(resetDraftConnection(Scene))
    /\ lastOp' = Op("resetDraftConnection", << >>, draftConnection # {})
    /\ emitted' = Q_EMIT("resetDraftConnection", Scene, << >>)
    /\ UNCHANGED movedSinceClick
    /\ UNCHANGED <<graphNodes, graphConnections>>

GetRecordTemplates(input) ==
    /\ ~crashed
    /\ Len(m_record) + Len(input) <= MaxRecords
    /\ Install(getRecordTemplates(Scene, input))
    /\ lastOp' = Op("getRecordTemplates", << >>, FALSE)
    /\ emitted' = Q_EMIT("getRecordTemplates", Scene, << >>)
    /\ UNCHANGED movedSinceClick
    /\ UNCHANGED <<graphNodes, graphConnections>>

\* A connection object emits doubleClicked; only an object the lambda is
\* connected to opens the dialog.
DoubleClicked(c) ==
    /\ ~crashed
    /\ c \in DOMAIN connectionGraphicsObjects
    /\ connectionGraphicsObjects[c].doubleClicked
    /\ Install(openDialog(Scene, c))
    /\ lastOp' = Op("openDialog", <<c>>, c \in DOMAIN dialogs)
    /\ emitted' = Q_EMIT("openDialog", Scene, c)
    /\ UNCHANGED movedSinceClick
    /\ UNCHANGED <<graphNodes, graphConnections>>

\* The user presses OK in a shown dialog, with its current row.
OkClicked(c, row) ==
    /\ ~crashed
    /\ c \in DOMAIN dialogs
    /\ dialogs[c].visible
    /\ row \in 0..Len(dialogs[c].items)
    /\ (row # 0 /\ c \in DOMAIN connectionGraphicsObjects)
          => Cardinality(DOMAIN sceneItems) < MaxTextItems
    /\ Install(okClicked(Scene, c, row))
    /\ lastOp' = Op("okClicked", <<c, row>>, row # 0)
    /\ emitted' = Q_EMIT("okClicked", Scene, c)
    /\ UNCHANGED movedSinceClick
    /\ UNCHANGED <<graphNodes, graphConnections>>

\* The graph model emits nodePositionUpdated for a node it moved; the
\* notification may come late, for a node the scene has no object of.
NodePositionUpdated(n) ==
    /\ ~crashed
    /\ Install(onNodePositionUpdated(Scene, n))
    /\ lastOp' = Op("onNodePositionUpdated", <<n>>, n \in DOMAIN nodeGraphicsObjects)
    /\ emitted' = Q_EMIT("onNodePositionUpdated", Scene, n)
    /\ movedSinceClick' = IF n \in DOMAIN nodeGraphicsObjects
                          THEN movedSinceClick \cup {n}
                          ELSE movedSinceClick
    /\ UNCHANGED <<graphNodes, graphConnections>>

\* A node object emits nodeClicked (a mouse release on it).
NodeClicked(n) ==
    /\ ~crashed
    /\ n \in DOMAIN nodeGraphicsObjects
    /\ Install(onNodeClicked(Scene, n))
    /\ lastOp' = Op("onNodeClicked", <<n>>, nodeDrag)
    /\ emitted' = Q_EMIT("onNodeClicked", Scene, n)
    /\ movedSinceClick' = {}
    /\ UNCHANGED <<graphNodes, graphConnections>>

\* The graph model emits nodeUpdated; the node's geometry then yields newIn
\* as the in point of the connections into it.
NodeUpdated(n, newIn) ==
    /\ ~crashed
    /\ n \in SeqRange(graphNodes)
    /\ Install(onNodeUpdated(Scene, n, newIn))
    /\ lastOp' = Op("onNodeUpdated", <<n>>, n \in DOMAIN nodeGraphicsObjects)
    /\ emitted' = Q_EMIT("onNodeUpdated", Scene, n)
    /\ UNCHANGED movedSinceClick
    /\ UNCHANGED <<graphNodes, graphConnections>>

\* ----------------------------------------- notifications with no model change
\* The same slots run on a notification the graph model repeats or sends
\* late: the graph is as it was.
RedundantNodeCreated(n) ==
    /\ ~crashed
    /\ Install(onNodeCreated(Scene, n))
    /\ lastOp' = Op("onNodeCreated", <<n>>, n \in DOMAIN nodeGraphicsObjects)
    /\ emitted' = Q_EMIT("onNodeCreated", Scene, n)
    /\ UNCHANGED movedSinceClick
    /\ UNCHANGED <<graphNodes, graphConnections>>

RedundantNodeDeleted(n) ==
    /\ ~crashed
    /\ Install(onNodeDeleted(Scene, n))
    /\ lastOp' = Op("onNodeDeleted", <<n>>, n \in DOMAIN nodeGraphicsObjects)
    /\ emitted' = Q_EMIT("onNodeDeleted", Scene, n)
    /\ UNCHANGED movedSinceClick
    /\ UNCHANGED <<graphNodes, graphConnections>>

RedundantConnectionCreated(c) ==
    /\ ~crashed
    /\ Install(onConnectionCreated(Scene, c))
    /\ lastOp' = Op("onConnectionCreated", <<c>>, c \in DOMAIN connectionGraphicsObjects)
    /\ emitted' = Q_EMIT("onConnectionCreated", Scene, c)
    /\ UNCHANGED movedSinceClick
    /\ UNCHANGED <<graphNodes, graphConnections>>

RedundantConnectionDeleted(c) ==
    /\ ~crashed
    /\ \E s \in onConnectionDeletedOutcomes(Scene, c) :
        /\ Install(s)
        /\ emitted' = IF s.crashed THEN << >> ELSE Q_EMIT("onConnectionDeleted", Scene, c)
    /\ lastOp' = Op("onConnectionDeleted", <<c>>, c \in DOMAIN connectionGraphicsObjects)
    /\ UNCHANGED movedSinceClick
    /\ UNCHANGED <<graphNodes, graphConnections>>

\* The graph model emits connectionCreated once more for a connection it holds.
RepeatedConnectionCreated(c) ==
    /\ c \in graphConnections
    /\ RedundantConnectionCreated(c)

\* ------------------------------------------------------------ specifications
\* The synchronization engine and the draft controller: the graph model's
\* notifications, each after its change, the orientation switch and the draft.
NextSync ==
    \/ \E n \in NodeIds : NodeCreated(n)
    \/ \E n \in NodeIds : NodeDeleted(n)
    \/ \E c \in ConnectionIds : ConnectionCreated(c)
    \/ \E c \in ConnectionIds : ConnectionDeleted(c)
    \/ ModelReset
    \/ \E o \in Orientations : SetOrientation(o)
    \/ \E x \in DraftIds : MakeDraftConnection(x)
    \/ ResetDraftConnection

SpecSync == Init /\ [][NextSync]_vars

\* The above and the annotation of the first connection; the drag protocol
\* and the moves of the connections have their own specifications below.
Next ==
    \/ NextSync
    \/ \E r \in HeaderRecords : GetRecordTemplates(<<r>>)
    \/ \E c \in FirstConnectionIds : DoubleClicked(c)
    \/ \E c \in FirstConnectionIds, row \in 0..(MaxRecords * 2) : OkClicked(c, row)

Spec == Init /\ [][Next]_vars

\* The drag protocol: position updates and clicks, over a changing set of
\* node objects.
NextDrag ==
    \/ \E n \in NodeIds : NodeCreated(n)
    \/ \E n \in NodeIds : NodeDeleted(n)
    \/ ModelReset
    \/ \E n \in NodeIds : NodePositionUpdated(n)
    \/ \E n \in NodeIds : NodeClicked(n)

SpecDrag == Init /\ [][NextDrag]_vars

\* The label of the first connection while its nodes are updated and the
\* connection is created, deleted or notified again.
NextLabel ==
    \/ \E c \in FirstConnectionIds : ConnectionCreated(c)
    \/ \E c \in FirstConnectionIds : ConnectionDeleted(c)
    \/ \E c \in FirstConnectionIds : RepeatedConnectionCreated(c)
    \/ \E r \in HeaderRecords : GetRecordTemplates(<<r>>)
    \/ \E c \in FirstConnectionIds : DoubleClicked(c)
    \/ \E c \in FirstConnectionIds, row \in 0..(MaxRecords * 2) : OkClicked(c, row)
    \/ \E n \in NodeIds, p \in Points : NodeUpdated(n, p)

SpecLabel == Init /\ [][NextLabel]_vars

\* The graph model may also repeat a notification or send it late: the scene
\* obeys each notification whatever the graph holds, so the notifications are
\* taken here unguarded, and the graph itself changes by reset alone.
NextRedundant ==
    \/ ModelReset
    \/ \E x \in DraftIds : MakeDraftConnection(x)
    \/ ResetDraftConnection
    \/ \E r \in HeaderRecords : GetRecordTemplates(<<r>>)
    \/ \E c \in FirstConnectionIds : DoubleClicked(c)
    \/ \E c \in FirstConnectionIds, row \in 0..(MaxRecords * 2) : OkClicked(c, row)
    \/ \E n \in NodeIds : RedundantNodeCreated(n)
    \/ \E n \in NodeIds : RedundantNodeDeleted(n)
    \/ \E c \in ConnectionIds : RedundantConnectionCreated(c)
    \/ \E c \in AllConnectionIds : RedundantConnectionDeleted(c)

SpecRedundant == Init /\ [][NextRedundant]_vars


\* ------------------------------------------------------------------ claims
\* C1. Convergence: after every node-created, node-deleted,
\* connection-created and connection-deleted event delivered after the model
\* change it reports (and after every other handler), the keys of the
\* node-proxy map are the model's node ids and the keys of the
\* connection-proxy map are the model's connection ids, for as long as the
\* process runs.
C1_Convergence ==
    ~crashed =>
        /\ DOMAIN nodeGraphicsObjects = SeqRange(graphNodes)
        /\ DOMAIN connectionGraphicsObjects = graphConnections

C1_Witness ==
    /\ lastOp.op = "onConnectionDeleted"
    /\ ~crashed
    /\ Cardinality(DOMAIN connectionGraphicsObjects) = 1
    /\ Cardinality(DOMAIN nodeGraphicsObjects) = MaxNode

\* C2. In every reachable state a dialog record (_dialogs) or a text item
\* entry (_textItems) exists only for a connection id that is a key of the
\* connection-proxy map.  (The claim as stated.)
C2_AnnotationsOnlyForProxies ==
    ~crashed =>
        /\ DOMAIN dialogs \subseteq DOMAIN connectionGraphicsObjects
        /\ DOMAIN textItems \subseteq DOMAIN connectionGraphicsObjects

\* C3. Deletion cascade: once onConnectionDeleted(c) has run for a connection
\* that had a proxy, a shown dialog and a live text item in _textItems, c has
\* no proxy, no dialog record, no _textItems entry, and the scene holds no text
\* item created for c.  (The claim as stated.)
C3_DeletionCascade ==
    [][ \A c \in ConnectionIds :
          ( /\ c \in DOMAIN connectionGraphicsObjects
            /\ c \in DOMAIN dialogs
            /\ dialogs[c].visible
            /\ c \in DOMAIN textItems
            /\ textItems[c] \in DOMAIN sceneItems
            /\ lastOp'.op = "onConnectionDeleted"
            /\ lastOp'.id = <<c>>
            /\ ~crashed' )
          => ( /\ c \notin DOMAIN connectionGraphicsObjects'
               /\ c \notin DOMAIN dialogs'
               /\ c \notin DOMAIN textItems'
               /\ \A t \in DOMAIN sceneItems' : sceneItems'[t].connectionId # c ) ]_vars

\* C4. Draft exclusivity: at most one draft connection exists, and once
\* makeDraftConnection(y) has run, with or without a draft before it, the one
\* draft is a newly constructed object whose id is y.
C4_DraftExclusive ==
    /\ Cardinality(draftConnection) <= 1
    /\ lastOp.op = "makeDraftConnection" =>
          /\ draftConnection = { [connectionId |-> lastOp.id[1]] }
          /\ constructed = << Made("draft", lastOp.id[1]) >>

C4_Witness ==
    /\ lastOp.op = "makeDraftConnection"
    /\ lastOp.hit
    /\ lastOp.id[1] \in IncompleteIds
    /\ draftConnection = { [connectionId |-> lastOp.id[1]] }


C6_DuplicateCreationSkipped ==
    [][ ( /\ lastOp'.op \in {"onNodeCreated", "onConnectionCreated"}
          /\ lastOp'.hit )
        => ( /\ constructed' = << >>
             /\ nodeGraphicsObjects' = nodeGraphicsObjects
             /\ connectionGraphicsObjects' = connectionGraphicsObjects
             /\ draftConnection' = draftConnection
             /\ dialogs' = dialogs
             /\ textItems' = textItems
             /\ sceneItems' = sceneItems ) ]_vars

\* C7. Annotation round-trip: once OK was pressed with a current row in the
\* dialog of a connection c that has a proxy, getConnections() holds exactly
\* one entry for c, its templateName is the name of that row (the latest
\* selection), and the colour of c's proxy is getColorForHeader of that name.
C7_AnnotationRoundTrip ==
    (lastOp.op = "okClicked" /\ lastOp.hit /\ ~crashed) =>
        LET c == lastOp.id[1]
            selected == dialogs[c].items[lastOp.id[2]]
            infos == getConnections(Scene)
            mine == { i \in 1..Len(infos) : infos[i].connectionId = c }
        IN  c \in DOMAIN connectionGraphicsObjects =>
                /\ Cardinality(mine) = 1
                /\ \A i \in mine :
                      /\ infos[i].templateName = selected
                      /\ infos[i].nodeIdOut = c.outNodeId
                      /\ infos[i].nodeIdIn = c.inNodeId
                /\ connectionGraphicsObjects[c].color = getColorForHeader(selected)

\* A second selection for the connection, of the other name.
C7_Witness ==
    /\ lastOp.op = "okClicked"
    /\ lastOp.hit
    /\ lastOp.id[1] \in DOMAIN connectionGraphicsObjects
    /\ Cardinality(DOMAIN sceneItems) = 2
    /\ dialogs[lastOp.id[1]].second = "Header2"
    /\ lastOp.id[2] = 2

\* Every proxy of the maps was constructed by the handler that ran last.
AllProxiesNew ==
    /\ \A n \in DOMAIN nodeGraphicsObjects : Made("node", n) \in SeqRange(constructed)
    /\ \A c \in DOMAIN connectionGraphicsObjects :
          Made("connection", c) \in SeqRange(constructed)

\* C8. Orientation switch: setOrientation(v) with v the current orientation
\* changes neither proxy map nor the scene and constructs nothing;
\* with the other value it records v, and both maps then hold exactly the
\* model's ids, every proxy constructed anew by the traversal.
C8_OrientationSwitch ==
    [][ lastOp'.op = "setOrientation" =>
          IF lastOp'.hit
          THEN /\ orientation' = orientation
               /\ nodeGraphicsObjects' = nodeGraphicsObjects
               /\ connectionGraphicsObjects' = connectionGraphicsObjects
               /\ sceneItems' = sceneItems
               /\ constructed' = << >>
          ELSE /\ orientation' = lastOp'.id[1]
               /\ orientation' # orientation
               /\ DOMAIN nodeGraphicsObjects' = SeqRange(graphNodes)
               /\ DOMAIN connectionGraphicsObjects' = graphConnections
               /\ constructed' = TraversalOrder(graphNodes, graphConnections)
               /\ AllProxiesNew' ]_vars

C8_Witness ==
    /\ lastOp.op = "setOrientation"
    /\ ~lastOp.hit
    /\ orientation = "Vertical"
    /\ connectionGraphicsObjects # EmptyMap

\* The connections the traversal finds on the out ports of the model's nodes.
OutgoingConnections(ns, cs) ==
    { c \in cs : \E i \in 1..Len(ns) :
        c.outNodeId = ns[i] /\ c.outPortIndex \in 0..(nOutPorts(ns[i]) - 1) }

\* C9. Full reset: once onModelReset has run, whatever the maps held, the
\* keys of the node-proxy map are the model's node ids, the keys of the
\* connection-proxy map are the connections on the out ports of those nodes,
\* and every proxy in the maps was constructed by this reset.
C9_FullReset ==
    (lastOp.op = "onModelReset" /\ ~crashed) =>
        /\ DOMAIN nodeGraphicsObjects = SeqRange(graphNodes)
        /\ DOMAIN connectionGraphicsObjects =
              OutgoingConnections(graphNodes, graphConnections)
        /\ AllProxiesNew
        /\ sceneItems = EmptyMap

\* A reset of a scene that held a label, to a model with one connection.
C9_Witness ==
    /\ lastOp.op = "onModelReset"
    /\ ~crashed
    /\ Cardinality(DOMAIN connectionGraphicsObjects) = 1
    /\ textItems # EmptyMap

\* The last handler ran the full traversal.
Traversed ==
    \/ lastOp.op \in {"BasicGraphicsScene", "onModelReset"}
    \/ lastOp.op = "setOrientation" /\ ~lastOp.hit

\* C10. Full traversal order: the traversal constructs the node proxies in
\* the model's enumeration order, all of them before any connection proxy;
\* when a connection proxy is constructed the node proxies of both its ends
\* are in the map; the connections of one node are constructed by ascending
\* out port index.
C10_TraversalOrder ==
    Traversed =>
        LET log == constructed
            isNode(e) == e.kind = "node"
        IN  /\ SelectSeq(log, isNode) = NodePass(graphNodes)
            /\ \A i, j \in 1..Len(log) :
                  (log[i].kind = "node" /\ log[j].kind = "connection") => i < j
            /\ \A j \in 1..Len(log) :
                  log[j].kind = "connection" =>
                      LET before == Populate(Constructed, SubSeq(log, 1, j - 1))
                      IN  /\ log[j].id.outNodeId \in DOMAIN before.nodeGraphicsObjects
                          /\ log[j].id.inNodeId \in DOMAIN before.nodeGraphicsObjects
            /\ \A i, j \in 1..Len(log) :
                  ( /\ i < j
                    /\ log[i].kind = "connection"
                    /\ log[j].kind = "connection"
                    /\ log[i].id.outNodeId = log[j].id.outNodeId )
                  => log[i].id.outPortIndex < log[j].id.outPortIndex

\* A reset of a model that enumerates the in node first and has a connection
\* on each out port.
C10_Witness ==
    /\ lastOp.op = "onModelReset"
    /\ graphNodes = <<2, 1>>
    /\ Cardinality(graphConnections) = MaxPort
    /\ Len(constructed) = MaxNode + MaxPort

\* How many times the last handler emitted nodeMoved.
NodeMovedCount(signals) ==
    Cardinality({ i \in 1..Len(signals) : signals[i].signal = "nodeMoved" })

\* C11. nodeMoved once per completed drag: only onNodeClicked emits
\* nodeMoved; onNodePositionUpdated emits nothing and sets the drag flag
\* exactly when the node has an object; onNodeClicked emits nodeMoved once if
\* a position update was applied since the previous click and not at all
\* otherwise, and always leaves the flag unset.
C11_NodeMovedOncePerDrag ==
    [][ /\ NodeMovedCount(emitted') > 0 => lastOp'.op = "onNodeClicked"
        /\ lastOp'.op = "onNodePositionUpdated" =>
              /\ emitted' = << >>
              /\ nodeDrag' = (nodeDrag \/ lastOp'.id[1] \in DOMAIN nodeGraphicsObjects)
        /\ lastOp'.op = "onNodeClicked" =>
              /\ NodeMovedCount(emitted') = IF movedSinceClick # {} THEN 1 ELSE 0
              /\ ~nodeDrag' ]_vars

\* A click that emitted nodeMoved, after which the flag is unset.
C11_Witness ==
    /\ lastOp.op = "onNodeClicked"
    /\ NodeMovedCount(emitted) = 1
    /\ ~nodeDrag
    /\ Cardinality(DOMAIN nodeGraphicsObjects) = MaxNode

\* C20. nodeMoved names the node that moved: every nodeMoved(id) emitted
\* names a node to which a position update was applied since the previous
\* click and which has a node object.  (The claim as stated.)
C20_NodeMovedNamesMovedNode ==
    [][ \A i \in 1..Len(emitted') :
          emitted'[i].signal = "nodeMoved" =>
              /\ emitted'[i].nodeId \in movedSinceClick
              /\ emitted'[i].nodeId \in DOMAIN nodeGraphicsObjects' ]_vars

\* The step changed the selected template name of a connection.
CategoryChanged ==
    \E c \in DOMAIN dialogs \cap DOMAIN dialogs' : dialogs'[c].second # dialogs[c].second

\* C12. modified after any structural or annotation change: every step of
\* onNodeCreated, onNodeDeleted, onConnectionCreated, onConnectionDeleted or
\* the OK handler that changes the key set of a proxy map or a connection's
\* selected template name emits modified.  (The claim as stated.)
C12_ModifiedAfterChange ==
    [][ ( /\ lastOp'.op \in {"onNodeCreated", "onNodeDeleted", "onConnectionCreated",
                              "onConnectionDeleted", "okClicked"}
          /\ ~crashed'
          /\ \/ DOMAIN nodeGraphicsObjects' # DOMAIN nodeGraphicsObjects
             \/ DOMAIN connectionGraphicsObjects' # DOMAIN connectionGraphicsObjects
             \/ CategoryChanged )
        => Modified \in SeqRange(emitted') ]_vars

\* C13. Dialog de-duplication: openDialog(id) for an id that has a dialog
\* constructs nothing, leaves every dialog record as it was (the same dialog,
\* its list and the selected template name of id included) and shows the
\* dialog of id; _dialogs holds one dialog per id.
C13_DialogDeduplicated ==
    [][ (lastOp'.op = "openDialog" /\ lastOp'.hit) =>
          LET c == lastOp'.id[1]
          IN  /\ constructed' = << >>
              /\ DOMAIN dialogs' = DOMAIN dialogs
              /\ dialogs'[c].visible
              /\ dialogs' = [dialogs EXCEPT ![c].visible = TRUE] ]_vars

\* The dialog of a connection with a selected template was opened again.
C13_Witness ==
    /\ lastOp.op = "openDialog"
    /\ lastOp.hit
    /\ dialogs[lastOp.id[1]].second = "Header2"
    /\ dialogs[lastOp.id[1]].visible

\* C14. resetDraftConnection is unconditional and safe: after it, with or
\* without a draft before, there is no draft, and the proxy maps, the
\* dialogs, the label map and the scene's text items are as they were.
C14_ResetDraftSafe ==
    [][ lastOp'.op = "resetDraftConnection" =>
          /\ draftConnection' = {}
          /\ ~crashed'
          /\ nodeGraphicsObjects' = nodeGraphicsObjects
          /\ connectionGraphicsObjects' = connectionGraphicsObjects
          /\ dialogs' = dialogs
          /\ textItems' = textItems
          /\ sceneItems' = sceneItems ]_vars

\* A draft was reset in a scene that holds a dialog and a label.
C14_Witness ==
    /\ lastOp.op = "resetDraftConnection"
    /\ lastOp.hit
    /\ draftConnection = {}
    /\ dialogs # EmptyMap
    /\ sceneItems # EmptyMap

\* The text items the scene holds for a connection.
LabelsInScene(connectionId) ==
    { t \in DOMAIN sceneItems : sceneItems[t].connectionId = connectionId }

\* C15. At most one label per connection: once a template was selected for
\* a connection that has a proxy (the first time or again), the scene holds
\* exactly one text item for it, the one _textItems records.
\* (The claim as stated.)
C15_OneLabelPerConnection ==
    ( /\ lastOp.op = "okClicked"
      /\ lastOp.hit
      /\ lastOp.id[1] \in DOMAIN connectionGraphicsObjects )
    => /\ lastOp.id[1] \in DOMAIN textItems
       /\ LabelsInScene(lastOp.id[1]) = { textItems[lastOp.id[1]] }

\* The connections that have a proxy and a label that is alive.
LabelledConnections ==
    { c \in DOMAIN connectionGraphicsObjects \cap DOMAIN textItems :
        textItems[c] \in DOMAIN sceneItems }

\* C16. Label follows connection: once onNodeUpdated has moved the
\* connection objects of a node, the label of every such connection that has
\* one alive is at the in() of the connection's object displaced by
\* (-50, +1), also when the object was created again for the same id.
\* (The claim as stated.)
C16_LabelFollowsConnection ==
    (lastOp.op = "onNodeUpdated" /\ lastOp.hit) =>
        \A c \in LabelledConnections :
            (c.inNodeId = lastOp.id[1] \/ c.outNodeId = lastOp.id[1]) =>
                sceneItems[textItems[c]].pos = TextPosition(inPoints[c])

\* C17. onConnectionDeleted(id) destroys the draft exactly when there is
\* one and its id is id: after the handler the draft is gone if it had that
\* id and is the same draft, not constructed anew, otherwise.
C17_DraftDeletedIffSameId ==
    [][ (lastOp'.op = "onConnectionDeleted" /\ ~crashed') =>
          /\ draftConnection' =
                { d \in draftConnection : d.connectionId # lastOp'.id[1] }
          /\ Made("draft", lastOp'.id[1]) \notin SeqRange(constructed') ]_vars

\* A connection whose id the draft carries was deleted.
C17_Witness ==
    /\ lastOp.op = "onConnectionDeleted"
    /\ lastOp.hit
    /\ lastOp.id[1] \in FirstConnectionIds
    /\ draftConnection = {}
    /\ constructed = << >>
    /\ nodeGraphicsObjects # EmptyMap

\* C18. No dangling label references: every text item _textItems records
\* is alive (held by the scene), and no handler has deleted a freed one.
\* (The claim as stated.)
C18_NoDanglingLabel ==
    /\ ~crashed
    /\ \A c \in DOMAIN textItems : textItems[c] \in DOMAIN sceneItems

\* C19. Every connection proxy can be annotated: the openDialog lambda is
\* connected to doubleClicked of every object of the connection-proxy map,
\* whichever handler constructed it.  (The claim as stated.)
C19_EveryProxyOpensDialog ==
    \A c \in DOMAIN connectionGraphicsObjects :
        connectionGraphicsObjects[c].doubleClicked

====
